---- MODULE Spec2Model ----
(***************************************************************************)
(* Model of day08/main.py: the closest-pair selector (find_closest_pairs)  *)
(* and the union-find circuit manager (CircuitManager).                    *)
(*                                                                         *)
(* Three specifications share the variables:                               *)
(*   SpecSel  - find_closest_pairs applied to every bounded input          *)
(*   Spec     - every interleaving of the CircuitManager's operations      *)
(*   SpecMain - the __main__ script: selection, the connectivity loop on   *)
(*              one manager, then the part 1 summary on another            *)
(***************************************************************************)
EXTENDS Integers, Sequences, FiniteSets, TLC

VARIABLES
    junction_boxes,  \* find_closest_pairs: the list of boxes passed in
    n,               \* find_closest_pairs: the requested number of pairs
    closest_pairs,   \* find_closest_pairs: the returned list
    pc,              \* "start" before find_closest_pairs returns, "selected" after;
                     \* "ready" when the manager can be called, "returned" when a
                     \* call has returned and its value has not been dropped yet
    parent,          \* CircuitManager.parent: box -> parent box
    rank,            \* CircuitManager.rank: box -> rank
    op,              \* the last call made on the manager: [name, a, b, pairs];
                     \* pairs is the list the call was given (of pairs for
                     \* add_pairs, of boxes for are_all_boxes_connected)
    ret,             \* what that call returned
    prev,            \* the manager's [parent, rank] when that call was made
    applied,         \* history: the boxes passed to _union so far, grouped into
                     \* the sets that chains of applied unions connect
    ever,            \* history: every box that has been a key of parent
    heap,            \* __main__: the dict objects alive, by reference (position)
    manager,         \* __main__: the loop's CircuitManager, [parent, rank] references
    manager_part1,   \* __main__: part 1's CircuitManager, [parent, rank] references
    consumed,        \* __main__: how many pairs the loop has taken from closest_pairs
    was_connected_before,  \* __main__: as set by the last loop iteration
    is_connected_after,    \* __main__: as set by the last loop iteration
    last_connection, \* __main__: None or the reported pair
    added_count,     \* __main__: what part 1's add_pairs returned
    top_3_lengths    \* __main__: what part 1's get_top_3_circuit_lengths returned

selvars == <<junction_boxes, n, closest_pairs>>
mgrvars == <<parent, rank, op, ret, prev, applied, ever>>
mainvars == <<heap, manager, manager_part1, consumed, was_connected_before, is_connected_after,
              last_connection, added_count, top_3_lengths>>

vars == <<junction_boxes, n, closest_pairs, pc, parent, rank, op, ret, prev, applied, ever,
          heap, manager, manager_part1, consumed, was_connected_before, is_connected_after,
          last_connection, added_count, top_3_lengths>>

---------------------------------------------------------------------------
(* Bounds *)

MaxCoord == 1     \* boxes have coordinates x, y, z >= 0 with x + y + z <= MaxCoord
MaxLen == 3       \* longest list of boxes given to find_closest_pairs
MaxN == 3         \* largest requested number of pairs (the smallest is -1)
NumBoxes == 4     \* boxes the CircuitManager is driven with
MaxPairs == 2     \* longest pair list given to add_pairs
MaxList == 2      \* longest box list given to are_all_boxes_connected

---------------------------------------------------------------------------
(* JunctionBox: a value <<x, y, z>>; __eq__ and __hash__ are by value. *)

Coord == 0..MaxCoord

JunctionBox == {b \in Coord \X Coord \X Coord : b[1] + b[2] + b[3] <= MaxCoord}

\* The distance without the squares (the sum of the absolute differences).
distance_squared_not_squared(self, other) ==
    LET dx == other[1] - self[1]
        dy == other[2] - self[2]
        dz == other[3] - self[3]
        abs(d) == IF d < 0 THEN -d ELSE d
    IN  abs(dx) + abs(dy) + abs(dz)

distance_squared(self, other) ==
    LET dx == other[1] - self[1]
        dy == other[2] - self[2]
        dz == other[3] - self[3]
    IN  dx * dx + dy * dy + dz * dz

---------------------------------------------------------------------------
(* find_closest_pairs *)

\* pair_generator: (distance_sq, (box1, box2)) for i in range(m), j in range(i+1, m),
\* in that order.  Position p (1-based) of the stream is the p-th (i, j) in
\* lexicographic order.
RECURSIVE PairsFrom(_, _, _)
PairsFrom(boxes, i, j) ==
    IF i > Len(boxes) THEN <<>>
    ELSE IF j > Len(boxes) THEN PairsFrom(boxes, i + 1, i + 2)
    ELSE <<[dist_sq |-> distance_squared(boxes[i], boxes[j]),
            box1 |-> boxes[i], box2 |-> boxes[j]]>>
         \o PairsFrom(boxes, i, j + 1)

pair_generator(boxes) == PairsFrom(boxes, 1, 2)

\* heapq: the working set holds (key, order, elem) entries; its top is the
\* largest entry in tuple order (key first, then order; orders are unique).
HeapTop(result) ==
    CHOOSE e \in result :
        \A f \in result : f.k < e.k \/ (f.k = e.k /\ f.order <= e.order)

\* A sort the wrong way round: descending by (key, order).
RECURSIVE SortDescending(_)
SortDescending(result) ==
    IF result = {} THEN <<>>
    ELSE LET e == HeapTop(result)
         IN  <<e>> \o SortDescending(result \ {e})

\* No sort by key: the working set in its order of arrival.
RECURSIVE SortByOrder(_)
SortByOrder(result) ==
    IF result = {} THEN <<>>
    ELSE LET e == CHOOSE x \in result : \A f \in result : f.order <= x.order
         IN  SortByOrder(result \ {e}) \o <<e>>

\* result.sort(): ascending by (key, order).
RECURSIVE SortAscending(_)
SortAscending(result) ==
    IF result = {} THEN <<>>
    ELSE LET e == HeapTop(result)
         IN  SortAscending(result \ {e}) \o <<e>>

\* The scan of the rest of the stream: an element replaces the top only when
\* its key is strictly smaller; order counts the replacements made.
RECURSIVE ScanKeepLargest(_, _, _, _)
ScanKeepLargest(items, p, result, order) ==
    IF p > Len(items) THEN result
    ELSE LET k == items[p].dist_sq
             top == HeapTop(result)
         IN  IF k > top.k
             THEN ScanKeepLargest(items, p + 1,
                      (result \ {top}) \cup {[k |-> k, order |-> order, elem |-> items[p]]},
                      order + 1)
             ELSE ScanKeepLargest(items, p + 1, result, order)

RECURSIVE Scan(_, _, _, _)
Scan(items, p, result, order) ==
    IF p > Len(items) THEN result
    ELSE LET k == items[p].dist_sq
             top == HeapTop(result)
         IN  IF k < top.k
             THEN Scan(items, p + 1,
                      (result \ {top}) \cup {[k |-> k, order |-> order, elem |-> items[p]]},
                      order + 1)
             ELSE Scan(items, p + 1, result, order)

\* heapq.nsmallest(cnt, items, key = dist_sq) for cnt >= 1 and an iterable
\* without len(): the first cnt elements fill the working set, the rest are
\* scanned, and the working set is sorted.  (For cnt = 1 the library takes
\* min(), the first element of smallest key, which is what the scan leaves.)
Min2(a, b) == IF a < b THEN a ELSE b

nsmallest(cnt, items) ==
    LET first == Min2(cnt, Len(items))
        result == {[k |-> items[p].dist_sq, order |-> p - 1, elem |-> items[p]] :
                      p \in 1..first}
    IN  IF result = {} THEN <<>>
        ELSE SortAscending(Scan(items, first + 1, result, cnt))

\* find_closest_pairs without its guards, sorting every pair and slicing
\* the sorted list with [:n] (a negative n drops pairs from the end).
find_closest_pairs_sorted_slice(boxes, cnt) ==
    LET items == pair_generator(boxes)
        closest == nsmallest(Len(items), items)
        upto == IF cnt >= 0 THEN Min2(cnt, Len(closest))
                ELSE IF Len(closest) + cnt > 0 THEN Len(closest) + cnt ELSE 0
    IN  [q \in 1..upto |->
            [box1 |-> closest[q].elem.box1, box2 |-> closest[q].elem.box2,
             dist_sq |-> closest[q].elem.dist_sq]]

find_closest_pairs_guard3(boxes, cnt) ==
    IF Len(boxes) < 3 THEN <<>>
    ELSE IF cnt <= 0 THEN <<>>
    ELSE LET closest == nsmallest(cnt, pair_generator(boxes))
         IN  [q \in 1..Len(closest) |->
                 [box1 |-> closest[q].elem.box1, box2 |-> closest[q].elem.box2,
                  dist_sq |-> closest[q].elem.dist_sq]]

find_closest_pairs(boxes, cnt) ==
    IF Len(boxes) < 2 THEN <<>>
    ELSE IF cnt <= 0 THEN <<>>
    ELSE LET closest == nsmallest(cnt, pair_generator(boxes))
         IN  [q \in 1..Len(closest) |->
                 [box1 |-> closest[q].elem.box1, box2 |-> closest[q].elem.box2,
                  dist_sq |-> closest[q].elem.dist_sq]]

---------------------------------------------------------------------------
(* The selector's specification: every list of distinct boxes of length up  *)
(* to MaxLen and every n in -1..MaxN.                                        *)

DistinctLists ==
    UNION {{s \in [1..len -> JunctionBox] :
               \A i, j \in 1..len : i # j => s[i] # s[j]} : len \in 0..MaxLen}

NoCall == [name |-> "none", a |-> <<>>, b |-> <<>>, pairs |-> <<>>]

\* Python's None, and a name not bound to a manager yet.
None == [none |-> TRUE]
NoManager == [parent |-> 0, rank |-> 0]

\* The __main__ variables before the script has touched them.
MainUntouched ==
    /\ heap = <<>>
    /\ manager = NoManager
    /\ manager_part1 = NoManager
    /\ consumed = 0
    /\ was_connected_before = FALSE
    /\ is_connected_after = FALSE
    /\ last_connection = None
    /\ added_count = 0
    /\ top_3_lengths = <<>>

InitSel ==
    /\ junction_boxes \in DistinctLists
    /\ n \in (-1)..MaxN
    /\ closest_pairs = <<>>
    /\ pc = "start"
    /\ parent = <<>>
    /\ rank = <<>>
    /\ op = NoCall
    /\ ret = "none"
    /\ prev = [parent |-> <<>>, rank |-> <<>>]
    /\ applied = {}
    /\ ever = {}
    /\ MainUntouched

FindClosestPairs ==
    /\ pc = "start"
    /\ closest_pairs' = find_closest_pairs(junction_boxes, n)
    /\ pc' = "selected"
    /\ UNCHANGED <<junction_boxes, n, parent, rank, op, ret, prev, applied, ever>>
    /\ UNCHANGED mainvars

NextSel == FindClosestPairs

SpecSel == InitSel /\ [][NextSel]_vars

---------------------------------------------------------------------------
(* CircuitManager.  A manager value is [parent |-> ..., rank |-> ...]; every *)
(* method is an operator from the manager it is called on to the manager    *)
(* it leaves, with the value it returns in ret.                             *)

\* The boxes the manager is driven with.
Boxes == {<<0, 0, z>> : z \in 0..(NumBoxes - 1)}

\* CircuitManager(): both maps empty.
NewManager == [parent |-> <<>>, rank |-> <<>>]

\* A _find that follows the chain to the root but repoints no box.
RECURSIVE _find_no_compression(_, _)
_find_no_compression(s, box) ==
    IF box \notin DOMAIN s.parent
    THEN [parent |-> s.parent @@ (box :> box),
          rank |-> s.rank @@ (box :> 0),
          ret |-> box]
    ELSE IF s.parent[box] # box
    THEN LET r == _find_no_compression(s, s.parent[box])
         IN  [parent |-> r.parent, rank |-> r.rank, ret |-> r.ret]
    ELSE [parent |-> s.parent, rank |-> s.rank, ret |-> s.parent[box]]

\* A _find that returns the parent of box without following the chain.
_find_one_step(s, box) ==
    IF box \notin DOMAIN s.parent
    THEN [parent |-> s.parent @@ (box :> box),
          rank |-> s.rank @@ (box :> 0),
          ret |-> box]
    ELSE [parent |-> s.parent, rank |-> s.rank, ret |-> s.parent[box]]

\* _find: registers an unseen box as its own parent with rank 0; otherwise
\* follows parent links, and on the way back points every box visited at
\* what the recursive call returned.
RECURSIVE _find(_, _)
_find(s, box) ==
    IF box \notin DOMAIN s.parent
    THEN [parent |-> s.parent @@ (box :> box),
          rank |-> s.rank @@ (box :> 0),
          ret |-> box]
    ELSE IF s.parent[box] # box
    THEN LET r == _find(s, s.parent[box])
             p2 == [r.parent EXCEPT ![box] = r.ret]
         IN  [parent |-> p2, rank |-> r.rank, ret |-> p2[box]]
    ELSE [parent |-> s.parent, rank |-> s.rank, ret |-> s.parent[box]]

\* A _union that compares and links the boxes themselves, not their roots.
_union_link_boxes(s, box1, box2) ==
    LET f1 == _find(s, box1)
        f2 == _find(f1, box2)
        root1 == box1
        root2 == box2
    IN  IF root1 = root2
        THEN [parent |-> f2.parent, rank |-> f2.rank, ret |-> FALSE]
        ELSE IF f2.rank[root1] < f2.rank[root2]
        THEN [parent |-> [f2.parent EXCEPT ![root1] = root2], rank |-> f2.rank, ret |-> TRUE]
        ELSE IF f2.rank[root1] > f2.rank[root2]
        THEN [parent |-> [f2.parent EXCEPT ![root2] = root1], rank |-> f2.rank, ret |-> TRUE]
        ELSE [parent |-> [f2.parent EXCEPT ![root2] = root1],
              rank |-> [f2.rank EXCEPT ![root1] = @ + 1],
              ret |-> TRUE]

\* A _union by rank the wrong way round: the root of larger rank is hung
\* under the root of smaller rank.
_union_larger_under_smaller(s, box1, box2) ==
    LET f1 == _find(s, box1)
        f2 == _find(f1, box2)
        root1 == f1.ret
        root2 == f2.ret
    IN  IF root1 = root2
        THEN [parent |-> f2.parent, rank |-> f2.rank, ret |-> FALSE]
        ELSE IF f2.rank[root1] < f2.rank[root2]
        THEN [parent |-> [f2.parent EXCEPT ![root2] = root1], rank |-> f2.rank, ret |-> TRUE]
        ELSE IF f2.rank[root1] > f2.rank[root2]
        THEN [parent |-> [f2.parent EXCEPT ![root1] = root2], rank |-> f2.rank, ret |-> TRUE]
        ELSE [parent |-> [f2.parent EXCEPT ![root2] = root1],
              rank |-> [f2.rank EXCEPT ![root1] = @ + 1],
              ret |-> TRUE]

\* A _union that never increments a rank.
_union_no_rank_increment(s, box1, box2) ==
    LET f1 == _find(s, box1)
        f2 == _find(f1, box2)
        root1 == f1.ret
        root2 == f2.ret
    IN  IF root1 = root2
        THEN [parent |-> f2.parent, rank |-> f2.rank, ret |-> FALSE]
        ELSE IF f2.rank[root1] < f2.rank[root2]
        THEN [parent |-> [f2.parent EXCEPT ![root1] = root2], rank |-> f2.rank, ret |-> TRUE]
        ELSE IF f2.rank[root1] > f2.rank[root2]
        THEN [parent |-> [f2.parent EXCEPT ![root2] = root1], rank |-> f2.rank, ret |-> TRUE]
        ELSE [parent |-> [f2.parent EXCEPT ![root2] = root1],
              rank |-> f2.rank,
              ret |-> TRUE]

\* A _union that increments the surviving root's rank on every merge.
_union_always_increment(s, box1, box2) ==
    LET f1 == _find(s, box1)
        f2 == _find(f1, box2)
        root1 == f1.ret
        root2 == f2.ret
    IN  IF root1 = root2
        THEN [parent |-> f2.parent, rank |-> f2.rank, ret |-> FALSE]
        ELSE IF f2.rank[root1] < f2.rank[root2]
        THEN [parent |-> [f2.parent EXCEPT ![root1] = root2],
              rank |-> [f2.rank EXCEPT ![root2] = @ + 1],
              ret |-> TRUE]
        ELSE IF f2.rank[root1] > f2.rank[root2]
        THEN [parent |-> [f2.parent EXCEPT ![root2] = root1],
              rank |-> [f2.rank EXCEPT ![root1] = @ + 1],
              ret |-> TRUE]
        ELSE [parent |-> [f2.parent EXCEPT ![root2] = root1],
              rank |-> [f2.rank EXCEPT ![root1] = @ + 1],
              ret |-> TRUE]

\* A _union that tests box1 == box2 where the code tests root1 == root2.
_union_compare_boxes(s, box1, box2) ==
    LET f1 == _find(s, box1)
        f2 == _find(f1, box2)
        root1 == f1.ret
        root2 == f2.ret
    IN  IF box1 = box2
        THEN [parent |-> f2.parent, rank |-> f2.rank, ret |-> FALSE]
        ELSE IF f2.rank[root1] < f2.rank[root2]
        THEN [parent |-> [f2.parent EXCEPT ![root1] = root2], rank |-> f2.rank, ret |-> TRUE]
        ELSE IF f2.rank[root1] > f2.rank[root2]
        THEN [parent |-> [f2.parent EXCEPT ![root2] = root1], rank |-> f2.rank, ret |-> TRUE]
        ELSE [parent |-> [f2.parent EXCEPT ![root2] = root1],
              rank |-> [f2.rank EXCEPT ![root1] = @ + 1],
              ret |-> TRUE]

\* A _union that hangs box2, not root2, under root1.
_union_attach_box(s, box1, box2) ==
    LET f1 == _find(s, box1)
        f2 == _find(f1, box2)
        root1 == f1.ret
        root2 == f2.ret
    IN  IF root1 = root2
        THEN [parent |-> f2.parent, rank |-> f2.rank, ret |-> FALSE]
        ELSE IF f2.rank[root1] < f2.rank[root2]
        THEN [parent |-> [f2.parent EXCEPT ![root1] = root2], rank |-> f2.rank, ret |-> TRUE]
        ELSE IF f2.rank[root1] > f2.rank[root2]
        THEN [parent |-> [f2.parent EXCEPT ![box2] = root1], rank |-> f2.rank, ret |-> TRUE]
        ELSE [parent |-> [f2.parent EXCEPT ![box2] = root1],
              rank |-> [f2.rank EXCEPT ![root1] = @ + 1],
              ret |-> TRUE]

\* _union: two finds, then union by rank.
_union(s, box1, box2) ==
    LET f1 == _find(s, box1)
        f2 == _find(f1, box2)
        root1 == f1.ret
        root2 == f2.ret
    IN  IF root1 = root2
        THEN [parent |-> f2.parent, rank |-> f2.rank, ret |-> FALSE]
        ELSE IF f2.rank[root1] < f2.rank[root2]
        THEN [parent |-> [f2.parent EXCEPT ![root1] = root2], rank |-> f2.rank, ret |-> TRUE]
        ELSE IF f2.rank[root1] > f2.rank[root2]
        THEN [parent |-> [f2.parent EXCEPT ![root2] = root1], rank |-> f2.rank, ret |-> TRUE]
        ELSE [parent |-> [f2.parent EXCEPT ![root2] = root1],
              rank |-> [f2.rank EXCEPT ![root1] = @ + 1],
              ret |-> TRUE]

\* are_in_same_circuit: self._find(box1) == self._find(box2), left to right.
are_in_same_circuit(s, box1, box2) ==
    LET f1 == _find(s, box1)
        f2 == _find(f1, box2)
    IN  [parent |-> f2.parent, rank |-> f2.rank, ret |-> (f1.ret = f2.ret)]

\* An add_pairs that counts every pair, whatever _union returned.
RECURSIVE AddPairsFromCountAll(_, _, _, _)
AddPairsFromCountAll(s, pairs, q, added) ==
    IF q > Len(pairs)
    THEN [parent |-> s.parent, rank |-> s.rank, ret |-> added]
    ELSE LET u == _union(s, pairs[q].box1, pairs[q].box2)
         IN  AddPairsFromCountAll(u, pairs, q + 1, added + 1)

\* add_pairs: _union on every pair of the list in order; returns how many
\* of them returned True.
RECURSIVE AddPairsFrom(_, _, _, _)
AddPairsFrom(s, pairs, q, added) ==
    IF q > Len(pairs)
    THEN [parent |-> s.parent, rank |-> s.rank, ret |-> added]
    ELSE LET u == _union(s, pairs[q].box1, pairs[q].box2)
         IN  AddPairsFrom(u, pairs, q + 1, IF u.ret THEN added + 1 ELSE added)

add_pairs(s, pairs) == AddPairsFrom(s, pairs, 1, 0)

\* get_circuits: for every key of parent (a snapshot of the key set, visited
\* in the set's iteration order), _find it and add it to the set kept for its
\* root.  circuits_dict is a function root -> set of boxes; the list returned
\* is modelled by the family of its values, which does not depend on the
\* order of the visit.
RECURSIVE CircuitsLoop(_, _, _)
CircuitsLoop(s, todo, circuits_dict) ==
    IF todo = {}
    THEN [parent |-> s.parent, rank |-> s.rank,
          ret |-> {circuits_dict[r] : r \in DOMAIN circuits_dict}]
    ELSE LET box == CHOOSE b \in todo : TRUE
             f == _find(s, box)
             root == f.ret
             d1 == IF root \in DOMAIN circuits_dict
                   THEN circuits_dict
                   ELSE circuits_dict @@ (root :> {})
             d2 == [d1 EXCEPT ![root] = @ \cup {box}]
         IN  CircuitsLoop(f, todo \ {box}, d2)

\* A get_circuits that groups by self.parent[box] instead of self._find(box).
RECURSIVE CircuitsLoopByParent(_, _, _)
CircuitsLoopByParent(s, todo, circuits_dict) ==
    IF todo = {}
    THEN [parent |-> s.parent, rank |-> s.rank,
          ret |-> {circuits_dict[r] : r \in DOMAIN circuits_dict}]
    ELSE LET box == CHOOSE b \in todo : TRUE
             root == s.parent[box]
             d1 == IF root \in DOMAIN circuits_dict
                   THEN circuits_dict
                   ELSE circuits_dict @@ (root :> {})
             d2 == [d1 EXCEPT ![root] = @ \cup {box}]
         IN  CircuitsLoopByParent(s, todo \ {box}, d2)

get_circuits_by_parent(s) == CircuitsLoopByParent(s, DOMAIN s.parent, <<>>)

\* A get_circuits that adds the box only when its root's set exists already.
RECURSIVE CircuitsLoopAddInElse(_, _, _)
CircuitsLoopAddInElse(s, todo, circuits_dict) ==
    IF todo = {}
    THEN [parent |-> s.parent, rank |-> s.rank,
          ret |-> {circuits_dict[r] : r \in DOMAIN circuits_dict}]
    ELSE LET box == CHOOSE b \in todo : TRUE
             f == _find(s, box)
             root == f.ret
             d2 == IF root \in DOMAIN circuits_dict
                   THEN [circuits_dict EXCEPT ![root] = @ \cup {box}]
                   ELSE circuits_dict @@ (root :> {})
         IN  CircuitsLoopAddInElse(f, todo \ {box}, d2)

get_circuits_add_in_else(s) == CircuitsLoopAddInElse(s, DOMAIN s.parent, <<>>)

get_circuits(s) == CircuitsLoop(s, DOMAIN s.parent, <<>>)

\* get_circuit_count: the number of distinct values _find returns over the keys.
RECURSIVE CountLoop(_, _, _)
CountLoop(s, todo, roots) ==
    IF todo = {}
    THEN [parent |-> s.parent, rank |-> s.rank, ret |-> Cardinality(roots)]
    ELSE LET box == CHOOSE b \in todo : TRUE
             f == _find(s, box)
         IN  CountLoop(f, todo \ {box}, roots \cup {f.ret})

get_circuit_count(s) == CountLoop(s, DOMAIN s.parent, {})

\* The (at most) cnt smallest sizes, smallest first, as heapq.nsmallest gives.
RECURSIVE NSmallestSizes(_, _, _)
NSmallestSizes(cnt, sizes, todo) ==
    IF cnt = 0 \/ todo = {} THEN <<>>
    ELSE LET c == CHOOSE x \in todo : \A y \in todo : sizes[x] <= sizes[y]
         IN  <<sizes[c]>> \o NSmallestSizes(cnt - 1, sizes, todo \ {c})

\* heapq.nlargest(3, circuit_sizes): the (at most) 3 largest sizes, largest
\* first.  sizes is the function circuit -> len(circuit).
RECURSIVE NLargest(_, _, _)
NLargest(cnt, sizes, todo) ==
    IF cnt = 0 \/ todo = {} THEN <<>>
    ELSE LET c == CHOOSE x \in todo : \A y \in todo : sizes[y] <= sizes[x]
         IN  <<sizes[c]>> \o NLargest(cnt - 1, sizes, todo \ {c})

get_top_3_circuit_lengths(s) ==
    LET g == get_circuits(s)
        circuit_sizes == [c \in g.ret |-> Cardinality(c)]
    IN  [parent |-> g.parent, rank |-> g.rank,
         ret |-> IF g.ret = {} THEN <<>> ELSE NLargest(3, circuit_sizes, g.ret)]

\* are_all_boxes_connected without the test that every box is a key of parent.
RECURSIVE SameRootLoop(_, _, _, _)
SameRootLoop(s, all_boxes, q, first_root) ==
    IF q > Len(all_boxes)
    THEN [parent |-> s.parent, rank |-> s.rank, ret |-> TRUE]
    ELSE LET f == _find(s, all_boxes[q])
         IN  IF f.ret # first_root
             THEN [parent |-> f.parent, rank |-> f.rank, ret |-> FALSE]
             ELSE SameRootLoop(f, all_boxes, q + 1, first_root)

are_all_boxes_connected_no_key_test(s, all_boxes) ==
    IF all_boxes = <<>>
    THEN [parent |-> s.parent, rank |-> s.rank, ret |-> TRUE]
    ELSE IF Len(all_boxes) = 1
    THEN [parent |-> s.parent, rank |-> s.rank, ret |-> TRUE]
    ELSE LET f == _find(s, all_boxes[1])
         IN  SameRootLoop(f, all_boxes, 2, f.ret)

\* are_all_boxes_connected: True for an empty list and for a list of one box;
\* False when some box of the list is no key of parent; otherwise _find on
\* the first box, then on each following box until one has another root.
are_all_boxes_connected(s, all_boxes) ==
    IF all_boxes = <<>>
    THEN [parent |-> s.parent, rank |-> s.rank, ret |-> TRUE]
    ELSE IF Len(all_boxes) = 1
    THEN [parent |-> s.parent, rank |-> s.rank, ret |-> TRUE]
    ELSE IF \E q \in 1..Len(all_boxes) : all_boxes[q] \notin DOMAIN s.parent
    THEN [parent |-> s.parent, rank |-> s.rank, ret |-> FALSE]
    ELSE LET f == _find(s, all_boxes[1])
         IN  SameRootLoop(f, all_boxes, 2, f.ret)

---------------------------------------------------------------------------
(* The manager's specification: a fresh manager, then any call with any     *)
(* boxes, in any order.                                                     *)

Init ==
    /\ junction_boxes = <<>>
    /\ n = 0
    /\ closest_pairs = <<>>
    /\ pc = "ready"
    /\ parent = NewManager.parent
    /\ rank = NewManager.rank
    /\ op = NoCall
    /\ ret = "none"
    /\ prev = NewManager
    /\ applied = {}
    /\ ever = {}
    /\ MainUntouched

Self == [parent |-> parent, rank |-> rank]

\* A call: the manager becomes what the method leaves, and the call, the
\* manager it was made on and the value returned are recorded.
Call(name, a, b, pairs, r) ==
    /\ pc = "ready"
    /\ pc' = "returned"
    /\ parent' = r.parent
    /\ rank' = r.rank
    /\ ret' = r.ret
    /\ op' = [name |-> name, a |-> a, b |-> b, pairs |-> pairs]
    /\ prev' = Self
    /\ ever' = ever \cup DOMAIN r.parent
    /\ UNCHANGED <<junction_boxes, n, closest_pairs>>
    /\ UNCHANGED mainvars

\* History only: the boxes a chain of applied unions connects to box (box
\* alone when it was in no union yet), and the history after _union(a, b).
ClassOf(hist, box) == IF \E c \in hist : box \in c
                      THEN CHOOSE c \in hist : box \in c
                      ELSE {box}

Link(hist, a, b) ==
    (hist \ {ClassOf(hist, a), ClassOf(hist, b)}) \cup {ClassOf(hist, a) \cup ClassOf(hist, b)}

RECURSIVE LinkAll(_, _, _)
LinkAll(hist, pairs, q) ==
    IF q > Len(pairs) THEN hist
    ELSE LinkAll(Link(hist, pairs[q].box1, pairs[q].box2), pairs, q + 1)

\* The pair lists add_pairs is called with are the lists find_closest_pairs
\* returns, as in __main__: the cnt closest pairs, cnt up to MaxPairs, of any
\* boxes of Boxes listed in the order of their z.
SortedBoxLists ==
    UNION {{l \in [1..len -> Boxes] :
               \A q, r \in 1..len : q < r => l[q][3] < l[r][3]} : len \in 0..NumBoxes}

PairLists == {find_closest_pairs(l, cnt) : l \in SortedBoxLists, cnt \in 0..MaxPairs}

\* The box lists are_all_boxes_connected is called with: up to MaxList boxes,
\* repeated or not, in non-decreasing order of z.
BoxLists ==
    UNION {{l \in [1..len -> Boxes] :
               \A q, r \in 1..len : q < r => l[q][3] <= l[r][3]} : len \in 0..MaxList}

Find ==
    \E box \in Boxes :
        /\ Call("_find", box, <<>>, <<>>, _find(Self, box))
        /\ UNCHANGED applied

Union ==
    \E box1, box2 \in Boxes :
        /\ Call("_union", box1, box2, <<>>, _union(Self, box1, box2))
        /\ applied' = Link(applied, box1, box2)

AddPairs ==
    \E pairs \in PairLists :
        /\ Call("add_pairs", <<>>, <<>>, pairs, add_pairs(Self, pairs))
        /\ applied' = LinkAll(applied, pairs, 1)

AreInSameCircuit ==
    \E box1, box2 \in Boxes :
        /\ Call("are_in_same_circuit", box1, box2, <<>>, are_in_same_circuit(Self, box1, box2))
        /\ UNCHANGED applied

AreAllBoxesConnected ==
    \E all_boxes \in BoxLists :
        /\ Call("are_all_boxes_connected", <<>>, <<>>, all_boxes,
                are_all_boxes_connected(Self, all_boxes))
        /\ UNCHANGED applied

GetCircuits ==
    /\ Call("get_circuits", <<>>, <<>>, <<>>, get_circuits(Self))
    /\ UNCHANGED applied

GetCircuitCount ==
    /\ Call("get_circuit_count", <<>>, <<>>, <<>>, get_circuit_count(Self))
    /\ UNCHANGED applied

GetTop3CircuitLengths ==
    /\ Call("get_top_3_circuit_lengths", <<>>, <<>>, <<>>, get_top_3_circuit_lengths(Self))
    /\ UNCHANGED applied

\* The caller drops the returned value; the manager can be called again.
Discard ==
    /\ pc = "returned"
    /\ pc' = "ready"
    /\ op' = NoCall
    /\ ret' = "none"
    /\ prev' = Self
    /\ UNCHANGED <<junction_boxes, n, closest_pairs, parent, rank, applied, ever>>
    /\ UNCHANGED mainvars

Next ==
    \/ Find
    \/ Union
    \/ AreInSameCircuit
    \/ AddPairs
    \/ GetCircuits
    \/ GetCircuitCount
    \/ GetTop3CircuitLengths
    \/ AreAllBoxesConnected
    \/ Discard

Spec == Init /\ [][Next]_vars

---------------------------------------------------------------------------
(* The __main__ script.  A CircuitManager object holds references to its    *)
(* two dicts; the dicts live in heap.  boxes is junction_boxes; the number  *)
(* of pairs asked for, 6000 in the script, is n, drawn from -1..MaxN so     *)
(* that a list shorter than all the pairs occurs with few boxes.            *)

\* The manager value behind the references of m, and the heap after a
\* method has left the manager as r.
Deref(h, m) == [parent |-> h[m.parent], rank |-> h[m.rank]]
Store(h, m, r) == [h EXCEPT ![m.parent] = r.parent, ![m.rank] = r.rank]

\* A CircuitManager whose dicts are the first two ever made (as class
\* attributes would be) once there are any.
CircuitManager_shared_dicts(h) ==
    IF Len(h) >= 2
    THEN [heap |-> h, self |-> [parent |-> 1, rank |-> 2]]
    ELSE [heap |-> h \o <<NewManager.parent, NewManager.rank>>,
          self |-> [parent |-> Len(h) + 1, rank |-> Len(h) + 2]]

\* CircuitManager(): __init__ makes two new empty dicts.
CircuitManager(h) ==
    [heap |-> h \o <<NewManager.parent, NewManager.rank>>,
     self |-> [parent |-> Len(h) + 1, rank |-> Len(h) + 2]]

\* The three points of the small-triangle scenario.
Triangle == <<<<0, 0, 0>>, <<0, 0, 1>>, <<0, 0, 10>>>>

InitMain ==
    /\ junction_boxes \in DistinctLists \cup {Triangle}
    /\ n \in (-1)..MaxN
    /\ closest_pairs = <<>>
    /\ pc = "start"
    /\ parent = <<>>
    /\ rank = <<>>
    /\ op = NoCall
    /\ ret = "none"
    /\ prev = [parent |-> <<>>, rank |-> <<>>]
    /\ applied = {}
    /\ ever = {}
    /\ MainUntouched

\* manager = CircuitManager(); last_connection = None; the for loop starts
\* (and is over at once when closest_pairs is empty).
NewTracker ==
    /\ pc = "selected"
    /\ LET c == CircuitManager(heap)
       IN  /\ heap' = c.heap
           /\ manager' = c.self
    /\ last_connection' = None
    /\ consumed' = 0
    /\ pc' = IF closest_pairs = <<>> THEN "part1" ELSE "loop"
    /\ UNCHANGED <<selvars, mgrvars, manager_part1, was_connected_before,
                   is_connected_after, added_count, top_3_lengths>>

\* The loop body without its break.
LoopIteration_no_break ==
    /\ pc = "loop"
    /\ LET pair == closest_pairs[consumed + 1]
           before == are_all_boxes_connected(Deref(heap, manager), junction_boxes)
           h1 == Store(heap, manager, before)
           u == _union(Deref(h1, manager), pair.box1, pair.box2)
           h2 == Store(h1, manager, u)
           after == are_all_boxes_connected(Deref(h2, manager), junction_boxes)
           h3 == Store(h2, manager, after)
           completes == ~before.ret /\ after.ret
       IN  /\ heap' = h3
           /\ was_connected_before' = before.ret
           /\ is_connected_after' = after.ret
           /\ last_connection' = IF completes THEN pair ELSE last_connection
           /\ consumed' = consumed + 1
           /\ pc' = IF consumed + 1 = Len(closest_pairs) THEN "part1" ELSE "loop"
    /\ UNCHANGED <<selvars, mgrvars, manager, manager_part1, added_count, top_3_lengths>>

\* The loop body that reports on 'not was_connected_before' alone.
LoopIteration_no_after_test ==
    /\ pc = "loop"
    /\ LET pair == closest_pairs[consumed + 1]
           before == are_all_boxes_connected(Deref(heap, manager), junction_boxes)
           h1 == Store(heap, manager, before)
           u == _union(Deref(h1, manager), pair.box1, pair.box2)
           h2 == Store(h1, manager, u)
           after == are_all_boxes_connected(Deref(h2, manager), junction_boxes)
           h3 == Store(h2, manager, after)
           completes == ~before.ret
       IN  /\ heap' = h3
           /\ was_connected_before' = before.ret
           /\ is_connected_after' = after.ret
           /\ last_connection' = IF completes THEN pair ELSE last_connection
           /\ consumed' = consumed + 1
           /\ pc' = IF completes \/ consumed + 1 = Len(closest_pairs) THEN "part1" ELSE "loop"
    /\ UNCHANGED <<selvars, mgrvars, manager, manager_part1, added_count, top_3_lengths>>

\* One iteration of 'for (box1, box2), dist_sq in closest_pairs': the check
\* before, the _union, the check after; when the pair completes the circuit
\* it becomes last_connection and the loop breaks.
LoopIteration ==
    /\ pc = "loop"
    /\ LET pair == closest_pairs[consumed + 1]
           before == are_all_boxes_connected(Deref(heap, manager), junction_boxes)
           h1 == Store(heap, manager, before)
           u == _union(Deref(h1, manager), pair.box1, pair.box2)
           h2 == Store(h1, manager, u)
           after == are_all_boxes_connected(Deref(h2, manager), junction_boxes)
           h3 == Store(h2, manager, after)
           completes == ~before.ret /\ after.ret
       IN  /\ heap' = h3
           /\ was_connected_before' = before.ret
           /\ is_connected_after' = after.ret
           /\ last_connection' = IF completes THEN pair ELSE last_connection
           /\ consumed' = consumed + 1
           /\ pc' = IF completes \/ consumed + 1 = Len(closest_pairs) THEN "part1" ELSE "loop"
    /\ UNCHANGED <<selvars, mgrvars, manager, manager_part1, added_count, top_3_lengths>>

\* Part 1 on a manager that is first asked whether the first and the last
\* box of the input are in the same circuit.
Part1_asks_same_circuit ==
    /\ pc = "part1"
    /\ LET c == CircuitManager(heap)
           asked == IF junction_boxes = <<>> THEN Deref(c.heap, c.self)
                    ELSE are_in_same_circuit(Deref(c.heap, c.self), junction_boxes[1],
                                             junction_boxes[Len(junction_boxes)])
           added == add_pairs(asked, closest_pairs)
           h1 == Store(c.heap, c.self, added)
           top_3 == get_top_3_circuit_lengths(Deref(h1, c.self))
           h2 == Store(h1, c.self, top_3)
       IN  /\ manager_part1' = c.self
           /\ added_count' = added.ret
           /\ top_3_lengths' = top_3.ret
           /\ heap' = h2
    /\ pc' = "done"
    /\ UNCHANGED <<selvars, mgrvars, manager, consumed, was_connected_before,
                   is_connected_after, last_connection>>

\* manager_part1 = CircuitManager(); add_pairs(closest_pairs);
\* get_top_3_circuit_lengths().
Part1 ==
    /\ pc = "part1"
    /\ LET c == CircuitManager(heap)
           added == add_pairs(Deref(c.heap, c.self), closest_pairs)
           h1 == Store(c.heap, c.self, added)
           top_3 == get_top_3_circuit_lengths(Deref(h1, c.self))
           h2 == Store(h1, c.self, top_3)
       IN  /\ manager_part1' = c.self
           /\ added_count' = added.ret
           /\ top_3_lengths' = top_3.ret
           /\ heap' = h2
    /\ pc' = "done"
    /\ UNCHANGED <<selvars, mgrvars, manager, consumed, was_connected_before,
                   is_connected_after, last_connection>>

NextMain ==
    \/ FindClosestPairs
    \/ NewTracker
    \/ LoopIteration
    \/ Part1

SpecMain == InitMain /\ [][NextMain]_vars

---------------------------------------------------------------------------
(* Claims about find_closest_pairs, checked under SpecSel *)

\* The number of i < j combinations of m items.
Choose2(m) == (m * (m - 1)) \div 2

\* The i < j index combinations of the input list.
IndexPairs == {ij \in (1..Len(junction_boxes)) \X (1..Len(junction_boxes)) : ij[1] < ij[2]}

\* dx*dx + dy*dy + dz*dz of the boxes at positions i and j, written out.
DistOf(ij) ==
    LET p == junction_boxes[ij[1]]
        q == junction_boxes[ij[2]]
    IN  (q[1] - p[1]) * (q[1] - p[1]) + (q[2] - p[2]) * (q[2] - p[2])
        + (q[3] - p[3]) * (q[3] - p[3])

\* A brute-force full sort of the distances of all i < j combinations.
RECURSIVE BruteSort(_)
BruteSort(S) ==
    IF S = {} THEN <<>>
    ELSE LET m == CHOOSE x \in S : \A y \in S : DistOf(x) <= DistOf(y)
         IN  <<DistOf(m)>> \o BruteSort(S \ {m})

\* The index combination a returned pair is made of (the boxes are distinct).
IsPairOf(r, ij) == r.box1 = junction_boxes[ij[1]] /\ r.box2 = junction_boxes[ij[2]]

\* C1: for every list of distinct points and every k >= 0, the result is the k
\* smallest-distance pairs among the i < j combinations: its distances are the
\* first k entries of a brute-force full sort, in non-decreasing order, its
\* entries are distinct i < j pairs, and each distance is dx*dx + dy*dy + dz*dz
\* of the pair's two points.
C1_KSmallestPairs ==
    (pc = "selected" /\ n >= 0) =>
        LET brute == BruteSort(IndexPairs)
            R == closest_pairs
        IN  /\ Len(R) = Min2(n, Len(brute))
            /\ \A q \in 1..Len(R) :
                   /\ R[q].dist_sq = brute[q]
                   /\ \E ij \in IndexPairs : IsPairOf(R[q], ij) /\ R[q].dist_sq = DistOf(ij)
            /\ \A q, r \in 1..Len(R) :
                   /\ q < r => R[q].dist_sq <= R[r].dist_sq
                   /\ q # r => <<R[q].box1, R[q].box2>> # <<R[r].box1, R[r].box2>>

\* C1 witness: fewer pairs were requested than exist, at least two, and the
\* last pair generated displaced an earlier one from the working set.
C1_Witness ==
    /\ pc = "selected"
    /\ n >= 2
    /\ n < Cardinality(IndexPairs)
    /\ \E q \in 1..Len(closest_pairs) :
           IsPairOf(closest_pairs[q], <<Len(junction_boxes) - 1, Len(junction_boxes)>>)

C3_StrictlyAscending ==
    (pc = "selected" /\ n >= 0) =>
        \A q \in 1..(Len(closest_pairs) - 1) :
            closest_pairs[q].dist_sq < closest_pairs[q + 1].dist_sq

\* C3 amended: each returned pair has a squared distance greater than or
\* equal to that of the pair before it.
C3_NonDecreasing ==
    (pc = "selected" /\ n >= 0) =>
        \A q \in 1..(Len(closest_pairs) - 1) :
            closest_pairs[q].dist_sq <= closest_pairs[q + 1].dist_sq

\* C3 witness: a result with two consecutive pairs at the same distance
\* followed by a pair at a larger one.
C3_Witness ==
    /\ pc = "selected"
    /\ Len(closest_pairs) = 3
    /\ closest_pairs[1].dist_sq = closest_pairs[2].dist_sq
    /\ closest_pairs[2].dist_sq < closest_pairs[3].dist_sq

---------------------------------------------------------------------------
(* Claims about the CircuitManager, checked under Spec *)

\* The root reached from a registered box by following parent links, read
\* off the map without calling _find.
RECURSIVE RootOf(_, _)
RootOf(par, box) == IF par[box] = box THEN box ELSE RootOf(par, par[box])

\* What a box resolves to: its root, or itself when it was never registered.
Resolve(par, box) == IF box \in DOMAIN par THEN RootOf(par, box) ELSE box

\* The grouping of the registered boxes by root, read off the map.
Grouping(par) == {{q \in DOMAIN par : RootOf(par, q) = RootOf(par, p)} : p \in DOMAIN par}

Returned(name) == pc = "returned" /\ op.name = name

\* C4: _union(a, b) returns True exactly when a and b resolved to different
\* roots before the call and False exactly when they shared a root; after the
\* call a and b resolve to the same root; when it returned False no point's
\* root has changed.
C4_UnionReturn ==
    Returned("_union") =>
        LET before == Resolve(prev.parent, op.a) # Resolve(prev.parent, op.b)
        IN  /\ ret = before
            /\ Resolve(parent, op.a) = Resolve(parent, op.b)
            /\ ret = FALSE =>
                   \A p \in Boxes : Resolve(parent, p) = Resolve(prev.parent, p)

\* C4 witness: a _union of two different boxes that already shared a root
\* returned False and shortened a parent chain.
C4_Witness ==
    /\ Returned("_union")
    /\ ret = FALSE
    /\ op.a # op.b
    /\ DOMAIN parent = DOMAIN prev.parent
    /\ parent # prev.parent

\* C5: after a first _union(a, b), an immediately repeated _union(a, b), and
\* one more after it, return False and leave the root that _find returns for
\* every registered point unchanged.
C5_UnionIdempotent ==
    Returned("_union") =>
        LET second == _union(Self, op.a, op.b)
            third == _union(second, op.a, op.b)
        IN  /\ second.ret = FALSE
            /\ third.ret = FALSE
            /\ DOMAIN second.parent = DOMAIN parent
            /\ DOMAIN third.parent = DOMAIN parent
            /\ \A p \in DOMAIN parent :
                   /\ _find(second, p).ret = _find(Self, p).ret
                   /\ _find(third, p).ret = _find(Self, p).ret

\* C5 witness: a first _union(a, b) that merged two circuits, where the
\* repeated call still rewrites a parent link (it compresses a path).
C5_Witness ==
    /\ Returned("_union")
    /\ ret = TRUE
    /\ _union(Self, op.a, op.b).parent # parent

\* C6: from the same state, _union(a, b) and _union(b, a) return the same
\* value and leave the same grouping of points into circuits, as get_circuits
\* reports it.
C6_UnionSymmetric ==
    Returned("_union") =>
        LET other == _union(prev, op.b, op.a)
        IN  /\ ret = other.ret
            /\ get_circuits(Self).ret = get_circuits(other).ret

\* C6 witness: a merging _union(a, b) after which a's root is not the root
\* _union(b, a) would have left.
C6_Witness ==
    /\ Returned("_union")
    /\ ret = TRUE
    /\ Resolve(parent, op.a) # Resolve(_union(prev, op.b, op.a).parent, op.a)

\* C7: _find(p) on a registered point returns the root reached by following
\* parent links from p, a point whose parent is itself; on a point never seen
\* it registers p as its own parent with rank 0 and returns p, and every
\* other point's parent and rank are unchanged.
C7_FindResult ==
    Returned("_find") =>
        IF op.a \in DOMAIN prev.parent
        THEN /\ ret = RootOf(prev.parent, op.a)
             /\ prev.parent[ret] = ret
             /\ parent[ret] = ret
             /\ DOMAIN parent = DOMAIN prev.parent
        ELSE /\ ret = op.a
             /\ DOMAIN parent = DOMAIN prev.parent \cup {op.a}
             /\ DOMAIN rank = DOMAIN prev.rank \cup {op.a}
             /\ parent[op.a] = op.a
             /\ rank[op.a] = 0
             /\ \A p \in DOMAIN prev.parent :
                    parent[p] = prev.parent[p] /\ rank[p] = prev.rank[p]

\* C7 witness: _find on a registered point two links away from its root.
C7_Witness ==
    /\ Returned("_find")
    /\ op.a \in DOMAIN prev.parent
    /\ prev.parent[op.a] # op.a
    /\ prev.parent[prev.parent[op.a]] # prev.parent[op.a]

\* C8: are_in_same_circuit(a, b) returns True iff a and b resolve to the same
\* root, and the set of registered points and the results of get_circuits,
\* get_circuit_count and get_top_3_circuit_lengths are the same before and
\* after the call, for every a and b, registered or not.
C8_SameCircuitPureQuery ==
    Returned("are_in_same_circuit") =>
        /\ ret = (Resolve(prev.parent, op.a) = Resolve(prev.parent, op.b))
        /\ DOMAIN parent = DOMAIN prev.parent
        /\ get_circuits(Self).ret = get_circuits(prev).ret
        /\ get_circuit_count(Self).ret = get_circuit_count(prev).ret
        /\ get_top_3_circuit_lengths(Self).ret = get_top_3_circuit_lengths(prev).ret

\* Two boxes are connected by a chain of applied unions.
Chained(p, q) == p = q \/ \E c \in applied : p \in c /\ q \in c

\* C9: get_circuits returns non-empty, pairwise disjoint sets whose union is
\* the set of registered points, one set per distinct root; two registered
\* points are in the same set iff a chain of applied unions connects them;
\* and a union made after the call is reflected in the next call.
C9_CircuitsArePartition ==
    Returned("get_circuits") =>
        /\ \A c \in ret : c # {}
        /\ \A c, d \in ret : c # d => c \cap d = {}
        /\ UNION ret = DOMAIN prev.parent
        /\ DOMAIN parent = DOMAIN prev.parent
        /\ Cardinality(ret) = Cardinality({RootOf(prev.parent, p) : p \in DOMAIN prev.parent})
        /\ \A c \in ret : \A p, q \in c : RootOf(prev.parent, p) = RootOf(prev.parent, q)
        /\ \A p, q \in DOMAIN parent :
               (\E c \in ret : p \in c /\ q \in c) <=> Chained(p, q)
        /\ \A a, b \in Boxes :
               LET again == get_circuits(_union(Self, a, b)).ret
               IN  \E c \in again : a \in c /\ b \in c

\* C9 witness: get_circuits returned a circuit of three or more points and
\* another circuit beside it.
C9_Witness ==
    /\ Returned("get_circuits")
    /\ Cardinality(ret) >= 2
    /\ \E c \in ret : Cardinality(c) >= 3

RECURSIVE SumOfSizes(_)
SumOfSizes(family) ==
    IF family = {} THEN 0
    ELSE LET c == CHOOSE x \in family : TRUE
         IN  Cardinality(c) + SumOfSizes(family \ {c})

\* C10: after every prefix of applied unions (one _union at a time or a list
\* given to add_pairs), the sizes of the circuits get_circuits returns add up
\* to the number of distinct points ever registered.
C10_SizesAddUp ==
    pc \in {"ready", "returned"} =>
        SumOfSizes(get_circuits(Self).ret) = Cardinality(ever)

\* C10 witness: add_pairs applied two pairs to a manager that held points
\* already, and three or more circuits exist.
C10_Witness ==
    /\ Returned("add_pairs")
    /\ Len(op.pairs) = 2
    /\ prev.parent # <<>>
    /\ Cardinality(get_circuits(Self).ret) >= 2
    /\ Cardinality(ever) >= 4

\* All points of a list resolve to the same root, a point never registered
\* being a singleton circuit of its own.
AllSameRoot(par, list) ==
    \A q, r \in 1..Len(list) : Resolve(par, list[q]) = Resolve(par, list[r])

\* C11: for every list L, with or without repeated entries, and every
\* reachable state, are_all_boxes_connected(L) returns True iff all points of
\* L resolve to the same root (a point never registered being a singleton
\* circuit): True for the empty list and every list of length 1, and on an
\* empty partition True only when L holds at most one point.
C11_AllConnectedIffSameRoot ==
    Returned("are_all_boxes_connected") =>
        /\ ret = AllSameRoot(prev.parent, op.pairs)
        /\ Len(op.pairs) <= 1 => ret = TRUE
        /\ prev.parent = <<>> =>
               (ret = TRUE <=> Cardinality({op.pairs[q] : q \in 1..Len(op.pairs)}) <= 1)

\* C12: for a fixed list L, once are_all_boxes_connected(L) is True it is
\* True after every later _union, whatever its arguments and from whatever
\* reachable state: no _union takes it from True to False (so no sequence of
\* them does).
C12_ConnectivityMonotonic ==
    Returned("_union") =>
        \A L \in BoxLists :
            are_all_boxes_connected(prev, L).ret => are_all_boxes_connected(Self, L).ret

\* C12 witness: a _union that merged two circuits, one of them holding two
\* different boxes that were connected before the call.
C12_Witness ==
    /\ Returned("_union")
    /\ ret = TRUE
    /\ \E L \in BoxLists :
           /\ Len(L) = 2
           /\ L[1] # L[2]
           /\ are_all_boxes_connected(prev, L).ret
           /\ Resolve(prev.parent, L[1]) \in {Resolve(prev.parent, op.a), Resolve(prev.parent, op.b)}
           /\ Resolve(parent, L[1]) # Resolve(prev.parent, L[1])

---------------------------------------------------------------------------
(* Claims about the __main__ script, checked under SpecMain *)

\* A fresh partition after the unions of the first j pairs of closest_pairs,
\* and whether all the boxes are connected in it.
PrefixApplied(j) == add_pairs(NewManager, SubSeq(closest_pairs, 1, j))

ConnectedAfter(j) == are_all_boxes_connected(PrefixApplied(j), junction_boxes).ret

\* The positions whose union takes the boxes from not all connected to all
\* connected.
Completing ==
    {j \in 1..Len(closest_pairs) : ~ConnectedAfter(j - 1) /\ ConnectedAfter(j)}

LoopOver == pc \in {"part1", "done"}

Tracker == Deref(heap, manager)

\* C13: the reported completing pair is the pair at the smallest position
\* whose union takes are_all_boxes_connected(boxes) from False to True, with
\* that pair's squared distance; no later pair is unioned into the loop's
\* partition; and nothing is reported while the loop is still running, so at
\* most one pair is reported.
C13_FirstCompletingPair ==
    /\ pc = "loop" => last_connection = None /\ consumed < Len(closest_pairs)
    /\ (LoopOver /\ Completing # {}) =>
           LET j == CHOOSE x \in Completing : \A y \in Completing : x <= y
           IN  /\ last_connection = closest_pairs[j]
               /\ last_connection.dist_sq
                      = distance_squared(last_connection.box1, last_connection.box2)
               /\ consumed = j
               /\ was_connected_before = FALSE
               /\ is_connected_after = TRUE
               /\ Grouping(Tracker.parent) = Grouping(PrefixApplied(j).parent)

\* C13 witness: the loop reported a pair and stopped with pairs left over.
C13_Witness ==
    /\ pc = "done"
    /\ last_connection # None
    /\ consumed >= 2
    /\ consumed < Len(closest_pairs)

\* C14: when the pair list is exhausted without the boxes ever becoming one
\* circuit, last_connection stays None; None is no pair, and last_connection
\* is a pair iff the transition occurred within the supplied pairs.
C14_NoneWhenExhausted ==
    LoopOver =>
        /\ (last_connection # None) <=> (Completing # {})
        /\ (last_connection # None) <=>
               (\E q \in 1..Len(closest_pairs) : last_connection = closest_pairs[q])
        /\ Completing = {} =>
               /\ last_connection = None
               /\ consumed = Len(closest_pairs)
               /\ Grouping(Tracker.parent) = Grouping(PrefixApplied(Len(closest_pairs)).parent)

\* C14 witness: one pair was asked for among three boxes; it was applied and
\* the script ended with no completing pair.
C14_Witness ==
    /\ pc = "done"
    /\ Len(junction_boxes) = 3
    /\ Len(closest_pairs) = 1
    /\ consumed = 1
    /\ is_connected_after = FALSE
    /\ last_connection = None

---------------------------------------------------------------------------
(* Claims about the CircuitManager, checked under Spec (continued) *)

---------------------------------------------------------------------------
(* Claims about the __main__ script, checked under SpecMain (continued) *)

Refs(m) == {m.parent, m.rank}

\* Part 1 computed on a fresh partition, the loop never run.
SummaryAlone == get_top_3_circuit_lengths(add_pairs(NewManager, closest_pairs))

\* C16: the loop's manager and part 1's manager share no dict: a loop
\* iteration changes no dict but the loop manager's own, part 1 leaves the
\* loop manager's parent and rank maps as they were, and part 1's results
\* and maps are those of a fresh partition on which the loop never ran,
\* wherever the loop stopped.
C16_SeparateManagers ==
    [][ /\ pc = "loop" =>
               /\ DOMAIN heap' = DOMAIN heap
               /\ \A ref \in DOMAIN heap \ Refs(manager) : heap'[ref] = heap[ref]
        /\ (pc = "part1" /\ pc' = "done") =>
               /\ Refs(manager_part1') \cap Refs(manager') = {}
               /\ Deref(heap', manager') = Deref(heap, manager)
               /\ added_count' = add_pairs(NewManager, closest_pairs).ret
               /\ top_3_lengths' = SummaryAlone.ret
               /\ Deref(heap', manager_part1').parent = SummaryAlone.parent
               /\ Deref(heap', manager_part1').rank = SummaryAlone.rank
      ]_vars

\* C16 witness: the loop stopped before the end of the list, and part 1 then
\* merged circuits twice on its own manager.
C16_Witness ==
    /\ pc = "done"
    /\ consumed < Len(closest_pairs)
    /\ added_count = 2
    /\ Refs(manager_part1) \cap Refs(manager) = {}
    /\ Deref(heap, manager).parent # <<>>
    /\ Deref(heap, manager_part1).parent # <<>>

\* A degenerate request: n <= 0, or fewer than two boxes.
Degenerate == n <= 0 \/ Len(junction_boxes) < 2

\* C17: on a degenerate request find_closest_pairs returns the empty list,
\* the loop body never runs and leaves last_connection None, part 1 adds no
\* pair and returns an empty top-3 list, and the script always has a next
\* step until it is done (no step fails).
C17_DegenerateRequest ==
    Degenerate =>
        /\ pc # "start" => closest_pairs = <<>>
        /\ pc # "loop"
        /\ pc \in {"part1", "done"} => (last_connection = None /\ consumed = 0)
        /\ pc = "done" => (added_count = 0 /\ top_3_lengths = <<>>
                           /\ Deref(heap, manager_part1).parent = <<>>)
        /\ pc # "done" => ENABLED NextMain

\* C17 witness: the script is done on a request for no pairs among three boxes.
C17_Witness ==
    /\ pc = "done"
    /\ n <= 0
    /\ Len(junction_boxes) = 3
    /\ top_3_lengths = <<>>
    /\ last_connection = None

\* The pairs of the small triangle A(0,0,0), B(0,0,1), C(0,0,10).
PairAB == [box1 |-> Triangle[1], box2 |-> Triangle[2], dist_sq |-> 1]
PairBC == [box1 |-> Triangle[2], box2 |-> Triangle[3], dist_sq |-> 81]
PairAC == [box1 |-> Triangle[1], box2 |-> Triangle[3], dist_sq |-> 100]

\* The loop has applied exactly the first pair of the triangle.
AfterFirstPair ==
    junction_boxes = Triangle /\ consumed = 1 /\ pc \in {"loop", "part1", "done"}

TriangleDone == junction_boxes = Triangle /\ pc = "done"

\* C18 as stated: on the triangle, n = 1 selects exactly (A,B) with squared
\* distance 1, after it the three boxes are not all connected, and the next
\* closest pair, which completes the circuit and is reported, has squared
\* distance 100.
C18_TriangleSecondPair100 ==
    /\ (TriangleDone /\ n = 1) => closest_pairs = <<PairAB>>
    /\ AfterFirstPair => ~is_connected_after
    /\ (TriangleDone /\ n >= 2) =>
           /\ closest_pairs[2].dist_sq = 100
           /\ is_connected_after
           /\ last_connection = closest_pairs[2]

\* C18 amended: on the triangle, n = 1 selects exactly (A,B) with squared
\* distance 1 and no pair is reported; after the first pair the three boxes
\* are not all connected; with n >= 2 the next closest pair is (B,C) with
\* squared distance 81 (not 100; (A,C) with 100 comes third), it makes the
\* boxes all connected, is the reported pair, and the loop stops there.
C18_TriangleSecondPair81 ==
    /\ (TriangleDone /\ n = 1) =>
           (closest_pairs = <<PairAB>> /\ last_connection = None)
    /\ AfterFirstPair =>
           (~is_connected_after /\ ~are_all_boxes_connected(Tracker, Triangle).ret)
    /\ (TriangleDone /\ n >= 2) =>
           /\ closest_pairs[1] = PairAB
           /\ closest_pairs[2] = PairBC
           /\ n >= 3 => closest_pairs = <<PairAB, PairBC, PairAC>>
           /\ is_connected_after
           /\ are_all_boxes_connected(Tracker, Triangle).ret
           /\ last_connection = PairBC
           /\ consumed = 2

\* C18 witness: the script is done on the triangle with its three pairs
\* selected and a pair reported.
C18_Witness ==
    /\ TriangleDone
    /\ Len(closest_pairs) = 3
    /\ last_connection # None
    /\ ~was_connected_before

---------------------------------------------------------------------------
(* Claims about the CircuitManager, checked under Spec (continued) *)

\* Some box of the list given to the returned call was no key of parent
\* when the call was made.
SomeAbsent == \E q \in 1..Len(op.pairs) : op.pairs[q] \notin DOMAIN prev.parent

\* C19 as stated: are_all_boxes_connected returns False whenever any box of
\* the list is no key of parent, lists of one box included.
C19_FalseWheneverAbsent ==
    (Returned("are_all_boxes_connected") /\ SomeAbsent) => ret = FALSE

\* C19 amended: are_all_boxes_connected returns False whenever the list has
\* two or more entries and any of them is no key of parent (repeated entries
\* of one unseen box included), and then registers nothing; for a list of
\* one box it returns True, whether or not that box is a key of parent.
C19_FalseWhenAbsentAmongSeveral ==
    Returned("are_all_boxes_connected") =>
        /\ (Len(op.pairs) >= 2 /\ SomeAbsent) =>
               (ret = FALSE /\ parent = prev.parent /\ rank = prev.rank)
        /\ Len(op.pairs) = 1 => ret = TRUE

\* C19 witness: a list of two boxes, the first a key of parent and the second
\* not, was answered False.
C19_Witness ==
    /\ Returned("are_all_boxes_connected")
    /\ Len(op.pairs) = 2
    /\ op.pairs[1] \in DOMAIN prev.parent
    /\ op.pairs[2] \notin DOMAIN prev.parent
    /\ ret = FALSE

\* The box reached from box by following parent links steps times.
RECURSIVE Follow(_, _, _)
Follow(par, box, steps) ==
    IF steps = 0 THEN box ELSE Follow(par, par[box], steps - 1)

\* C20: in every reachable state the parent map is a forest: every parent
\* value is a key of parent, and following parent links from any key, for as
\* many steps as there are keys, ends at a box that is its own parent (so the
\* links hold no cycle but the roots' own).
C20_ParentIsForest ==
    /\ \A box \in DOMAIN parent : parent[box] \in DOMAIN parent
    /\ \A box \in DOMAIN parent :
           LET top == Follow(parent, box, Cardinality(DOMAIN parent))
           IN  parent[top] = top

\* C20 witness: a box two links below its root.
C20_Witness ==
    \E box \in DOMAIN parent :
        /\ parent[box] # box
        /\ parent[parent[box]] # parent[box]
        /\ parent[parent[parent[box]]] = parent[parent[box]]

\* The boxes on the parent chain from box up to its root, the root left out.
ChainOf(par, box) ==
    {Follow(par, box, steps) : steps \in 0..Cardinality(DOMAIN par)} \ {RootOf(par, box)}

\* C21: after _find(p) on a registered point, p and every box on the chain
\* from p to its root (the root left out) have the root as their parent; the
\* call changes no registered box's root, no rank, no key set, and no parent
\* of a box off that chain.
C21_PathCompression ==
    (Returned("_find") /\ op.a \in DOMAIN prev.parent) =>
        /\ \A box \in ChainOf(prev.parent, op.a) :
               parent[box] = RootOf(prev.parent, op.a)
        /\ \A box \in DOMAIN prev.parent :
               RootOf(parent, box) = RootOf(prev.parent, box)
        /\ rank = prev.rank
        /\ DOMAIN parent = DOMAIN prev.parent
        /\ \A box \in DOMAIN prev.parent \ ChainOf(prev.parent, op.a) :
               parent[box] = prev.parent[box]

\* C21 witness: _find on a box two links below its root, with another box
\* hanging under that root off the chain; the call repointed the box.
C21_Witness ==
    /\ Returned("_find")
    /\ op.a \in DOMAIN prev.parent
    /\ Cardinality(ChainOf(prev.parent, op.a)) = 2
    /\ parent[op.a] # prev.parent[op.a]
    /\ \E box \in DOMAIN prev.parent \ ChainOf(prev.parent, op.a) :
           prev.parent[box] # box

\* The rank a box has in a map, 0 when it is no key yet (what _find gives it).
RankIn(rk, box) == IF box \in DOMAIN rk THEN rk[box] ELSE 0

\* The two roots a returned _union(a, b) found, their ranks, and the maps
\* after its two finds, before the merge step.
Root1 == Resolve(prev.parent, op.a)
Root2 == Resolve(prev.parent, op.b)
Rank1 == RankIn(prev.rank, Root1)
Rank2 == RankIn(prev.rank, Root2)
AfterFinds == _find(_find(prev, op.a), op.b)

\* The root hung under the other one by the merge step, and the root kept.
Child == IF Rank1 < Rank2 THEN Root1 ELSE Root2
Survivor == IF Rank1 < Rank2 THEN Root2 ELSE Root1

\* C22: when _union(a, b) merges two different roots, the root of strictly
\* smaller rank becomes a child of the other and no rank changes; at equal
\* ranks b's root becomes a child of a's root, whose rank goes up by exactly
\* one; the merge step changes no other parent or rank entry; and no call at
\* all lowers a rank.
C22_UnionByRank ==
    /\ (Returned("_union") /\ Root1 # Root2) =>
           /\ ret = TRUE
           /\ parent[Child] = Survivor
           /\ parent[Survivor] = Survivor
           /\ \A box \in DOMAIN parent \ {Child} : parent[box] = AfterFinds.parent[box]
           /\ DOMAIN rank = DOMAIN AfterFinds.rank
           /\ \A box \in DOMAIN rank \ {Survivor} : rank[box] = AfterFinds.rank[box]
           /\ rank[Survivor] = IF Rank1 = Rank2 THEN Rank1 + 1 ELSE RankIn(prev.rank, Survivor)
           /\ \A box \in DOMAIN prev.rank : rank[box] = prev.rank[box] \/ (box = Survivor /\ Rank1 = Rank2)
    /\ pc = "returned" =>
           \A box \in DOMAIN prev.rank : box \in DOMAIN rank /\ rank[box] >= prev.rank[box]

\* C22 witness: a _union whose first box's root had the strictly smaller
\* rank, both being registered, and was hung under the second's.
C22_Witness ==
    /\ Returned("_union")
    /\ Root1 # Root2
    /\ Root1 \in DOMAIN prev.parent
    /\ Rank1 < Rank2
    /\ parent[Root1] = Root2

\* The number of parent links from a registered box up to its root.
RECURSIVE Depth(_, _)
Depth(par, box) == IF par[box] = box THEN 0 ELSE 1 + Depth(par, par[box])

\* C23: in every reachable state the rank of a root is an upper bound on the
\* height of its tree: no box is more links away from its root than the
\* root's rank, path compression or not.
C23_RankBoundsHeight ==
    \A box \in DOMAIN parent : Depth(parent, box) <= rank[RootOf(parent, box)]

\* C23 witness: a _find has just shortened a chain of two links, so that a
\* root of rank 2 is left with a tree of height 1.
C23_Witness ==
    /\ Returned("_find")
    /\ op.a \in DOMAIN prev.parent
    /\ Depth(prev.parent, op.a) = 2
    /\ rank[ret] = 2
    /\ \A box \in DOMAIN parent : RootOf(parent, box) = ret => Depth(parent, box) <= 1

\* The boxes of the circuit of a registered box, read off the map.
CircuitOf(par, box) == {q \in DOMAIN par : RootOf(par, q) = RootOf(par, box)}

\* C24: in every reachable state (the unions applied in any order) a circuit
\* whose root has rank r holds at least 2^r boxes, and a box that is d links
\* away from its root is in a circuit of at least 2^d boxes, that is
\* d <= floor(log2(n)) for a circuit of n boxes.
C24_LogarithmicHeight ==
    \A root \in {box \in DOMAIN parent : parent[box] = box} :
        \A circuit \in {CircuitOf(parent, root)} :
            /\ Cardinality(circuit) >= 2 ^ rank[root]
            /\ \A box \in circuit : Cardinality(circuit) >= 2 ^ Depth(parent, box)

\* C24 witness: a circuit of exactly four boxes whose root has rank 2, with a
\* box two links away from the root.
C24_Witness ==
    \E box \in DOMAIN parent :
        /\ Cardinality(CircuitOf(parent, box)) = 4
        /\ rank[RootOf(parent, box)] = 2
        /\ Depth(parent, box) = 2

---------------------------------------------------------------------------
(* Claims about the __main__ script, checked under SpecMain (continued) *)

Points == {junction_boxes[q] : q \in 1..Len(junction_boxes)}

Weights == {distance_squared(a, b) : a, b \in Points} \ {0}

\* The points reached from the points of S over pairs at squared distance at
\* most D, in at most steps rounds.
RECURSIVE Grow(_, _, _)
Grow(S, D, steps) ==
    IF steps = 0 THEN S
    ELSE Grow(S \cup {b \in Points : \E a \in S : distance_squared(a, b) <= D},
              D, steps - 1)

\* The graph of all pairs at squared distance at most D connects every point.
ConnectsAll(D) == Grow({junction_boxes[1]}, D, Len(junction_boxes)) = Points

\* The smallest such D: the largest edge weight of a minimum spanning tree.
Bottleneck ==
    CHOOSE D \in Weights : ConnectsAll(D) /\ \A E \in Weights : ConnectsAll(E) => D <= E

\* C25: for two or more distinct points the squared distance of the reported
\* completing pair is the smallest D such that the pairs at squared distance
\* at most D connect every point; a pair is reported whenever all pairs were
\* selected, or the selection goes beyond that D; and a pair is reported only
\* when the selection reaches that D.  (The input lists come in every order, so
\* pairs at equal distance come in every order.)
C25_BottleneckDistance ==
    (pc = "done" /\ Len(junction_boxes) >= 2 /\ n >= 1) =>
        /\ last_connection # None => last_connection.dist_sq = Bottleneck
        /\ Len(closest_pairs) = Choose2(Len(junction_boxes))
               => last_connection # None
        /\ closest_pairs[Len(closest_pairs)].dist_sq > Bottleneck => last_connection # None
        /\ closest_pairs[Len(closest_pairs)].dist_sq < Bottleneck => last_connection = None

\* C25 witness: a pair was reported at a squared distance that is neither the
\* smallest nor the largest between two of the points.
C25_Witness ==
    /\ pc = "done"
    /\ last_connection # None
    /\ \E D \in Weights : D < last_connection.dist_sq
    /\ \E D \in Weights : D > last_connection.dist_sq
    /\ last_connection.dist_sq = Bottleneck

\* The pair the next loop iteration takes, and what its _union call does on
\* the loop's manager (after the check made before it).
NextPair == closest_pairs[consumed + 1]
NextUnion ==
    _union(are_all_boxes_connected(Tracker, junction_boxes),
           NextPair.box1, NextPair.box2)

Summary == Deref(heap, manager_part1)
Touched ==
    {closest_pairs[q].box1 : q \in 1..Len(closest_pairs)}
        \cup {closest_pairs[q].box2 : q \in 1..Len(closest_pairs)}

\* C27: on part 1's fresh manager, driven by add_pairs alone, every circuit
\* get_circuits returns has two or more boxes and every top-3 value is 2 or
\* more; the boxes registered and enumerated are exactly those of the
\* selected pairs, so boxes of the input in no pair are in no circuit and
\* the sizes add up to the number of boxes touched, not to len(boxes).
C27_OnlyTouchedBoxes ==
    pc = "done" =>
        LET circuits == get_circuits(Summary).ret
        IN  /\ \A c \in circuits : Cardinality(c) >= 2
            /\ \A q \in 1..Len(top_3_lengths) : top_3_lengths[q] >= 2
            /\ DOMAIN Summary.parent = Touched
            /\ UNION circuits = Touched
            /\ \A q \in 1..Len(junction_boxes) :
                   junction_boxes[q] \notin Touched =>
                       \A c \in circuits : junction_boxes[q] \notin c
            /\ SumOfSizes(circuits) = Cardinality(Touched)
            /\ get_circuit_count(Summary).ret = Cardinality(circuits)
            /\ 2 * get_circuit_count(Summary).ret <= Cardinality(Touched)

\* C27 witness: three boxes, one of them in no selected pair: one circuit of
\* two boxes is all part 1 reports.
C27_Witness ==
    /\ pc = "done"
    /\ Len(junction_boxes) = 3
    /\ Cardinality(Touched) = 2
    /\ top_3_lengths = <<2>>
    /\ \E q \in 1..Len(junction_boxes) : junction_boxes[q] \notin DOMAIN Summary.parent

---------------------------------------------------------------------------
(* Claims about the CircuitManager, checked under Spec (continued) *)

\* The number of circuits a map holds among the boxes of a set D that
\* includes its keys, a box that is no key yet being a circuit of its own.
CircuitsAmong(par, D) == Cardinality(Grouping(par)) + Cardinality(D \ DOMAIN par)

\* How many pairs of a list, from position q on, join two different classes
\* of the history hist when applied in order.
RECURSIVE Merges(_, _, _)
Merges(hist, pairs, q) ==
    IF q > Len(pairs) THEN 0
    ELSE (IF ClassOf(hist, pairs[q].box1) # ClassOf(hist, pairs[q].box2) THEN 1 ELSE 0)
             + Merges(Link(hist, pairs[q].box1, pairs[q].box2), pairs, q + 1)

\* C28: add_pairs returns the number of its pairs whose union joined two
\* different circuits, which is what the call added to (registered boxes) -
\* get_circuit_count(), and on a fresh manager that difference itself; a
\* _union that returns True lowers the number of circuits among the boxes
\* registered after the call by exactly one and one that returns False leaves
\* it unchanged; and get_circuit_count() equals len(get_circuits()).
C28_MergeCounting ==
    /\ Returned("add_pairs") =>
           /\ ret = Merges(Grouping(prev.parent), op.pairs, 1)
           /\ ret = (Cardinality(DOMAIN parent) - get_circuit_count(Self).ret)
                      - (Cardinality(DOMAIN prev.parent) - get_circuit_count(prev).ret)
           /\ prev.parent = <<>> =>
                  ret = Cardinality(DOMAIN parent) - get_circuit_count(Self).ret
    /\ Returned("_union") =>
           CircuitsAmong(parent, DOMAIN parent)
               = CircuitsAmong(prev.parent, DOMAIN parent) - (IF ret THEN 1 ELSE 0)
    /\ Returned("get_circuit_count") => ret = Cardinality(get_circuits(prev).ret)
    /\ pc = "ready" => get_circuit_count(Self).ret = Cardinality(get_circuits(Self).ret)

\* C28 witness: add_pairs was given two pairs and counted one, the other
\* pair's boxes being in one circuit already.
C28_Witness ==
    /\ Returned("add_pairs")
    /\ Len(op.pairs) = 2
    /\ ret = 1
    /\ Cardinality(DOMAIN parent) > Cardinality(DOMAIN prev.parent)

\* The circuits that held the two boxes of a returned _union(a, b) before
\* the call, a box not registered yet being alone in its circuit.
CircuitA == ClassOf(Grouping(prev.parent), op.a)
CircuitB == ClassOf(Grouping(prev.parent), op.b)

\* C29: a _union(a, b) that returns True leaves one circuit that is exactly
\* the union of the two circuits that held a and b, and every other circuit
\* as it was; and no call of any operation removes a key from parent or rank.
C29_UnionFrame ==
    /\ (Returned("_union") /\ ret = TRUE) =>
           /\ CircuitA \cap CircuitB = {}
           /\ (CircuitA \cup CircuitB) \in Grouping(parent)
           /\ Grouping(parent)
                  = (Grouping(prev.parent) \ {CircuitA, CircuitB}) \cup {CircuitA \cup CircuitB}
    /\ pc = "returned" =>
           /\ DOMAIN prev.parent \subseteq DOMAIN parent
           /\ DOMAIN prev.rank \subseteq DOMAIN rank
    /\ ever = DOMAIN parent

\* C29 witness: a _union joined a circuit of two boxes with another circuit,
\* a third circuit standing by.
C29_Witness ==
    /\ Returned("_union")
    /\ ret = TRUE
    /\ Cardinality(CircuitA) = 2
    /\ \E c \in Grouping(prev.parent) : c \notin {CircuitA, CircuitB} /\ c \in Grouping(parent)

\* C30: are_all_boxes_connected(L) registers no box: for every list L and
\* every reachable state the keys of parent, the rank map, every box's root
\* and the grouping into circuits are the same after the call as before it;
\* only chains get shorter; get_circuits and the same check made again
\* report what they would have reported before the call.
C30_CheckRegistersNothing ==
    Returned("are_all_boxes_connected") =>
        /\ DOMAIN parent = DOMAIN prev.parent
        /\ rank = prev.rank
        /\ Grouping(parent) = Grouping(prev.parent)
        /\ \A box \in DOMAIN parent :
               /\ RootOf(parent, box) = RootOf(prev.parent, box)
               /\ Depth(parent, box) <= Depth(prev.parent, box)
        /\ get_circuits(Self).ret = get_circuits(prev).ret
        /\ are_all_boxes_connected(Self, op.pairs).ret = ret

\* C30 witness: a check of two registered boxes shortened a chain of two
\* links, while a third box was never registered.
C30_Witness ==
    /\ Returned("are_all_boxes_connected")
    /\ Len(op.pairs) = 2
    /\ parent # prev.parent
    /\ \E box \in DOMAIN prev.parent :
           Depth(prev.parent, box) = 2 /\ Depth(parent, box) = 1

====
